---- MODULE Spec2Model ----
(***************************************************************************)
(* The fleet simulator: one TradingEngine with its DataManager (the Store) *)
(* and its AIAgent, driven by three interval timers and by the public      *)
(* operations start / stop / toggleBot / optimizeBot.                      *)
(*                                                                         *)
(* Numbers.  JavaScript doubles are modelled by scaled integers:           *)
(*   riskLevel        hundredths            (0.3  -> 30)                   *)
(*   profit, price    cents                 (1.25 -> 125)                  *)
(*   successRate      hundredths of a percent (toFixed(2))                 *)
(*   performance      tenths                (toFixed(1))                   *)
(*   change           hundredths of a percent (toFixed(2))                 *)
(*   Math.random()    thousandths, 0..999                                  *)
(* Every handler runs to completion on the single JavaScript thread (the   *)
(* async functions await only values that are already settled), so one     *)
(* action is one handler.                                                  *)
(***************************************************************************)
EXTENDS Integers, Sequences, FiniteSets, TLC

\* ------------------------------------------------------------------ bounds
\* The three log capacities.  The code's values are 1000 (data manger.js:122),
\* 100 (data manger.js:137) and 100 (AI agent.js:296); the model runs the
\* same unshift/push-then-slice logic at a capacity TLC can fill.
MaxTradingHistory == 5
MaxAIDecisions == 2
MaxModelHistory == 2
\* Executed trades are counted per bot by the history variables tradeCount /
\* winCount; a trading cycle is taken only while every count is below the
\* run's budget, one of these two.
MaxExecuted == 3
MaxExecutedDeep == 5
MaxExecutedStore == 1
\* the longest learning history of the direct learnFromTrade calls
MaxLearned == 22

\* --------------------------------------------------------------- constants
Undefined == -1
RiskMin == 10
RiskMax == 90
RecentTrades == 50
MetricsWindow == 20
MetricsMinSamples == 10
ModelHistoryCap == 100
Omitted == -2

\* ----------------------------------------------------------------- helpers
Abs(x) == IF x < 0 THEN -x ELSE x
Min(a, b) == IF a < b THEN a ELSE b
Max(a, b) == IF a > b THEN a ELSE b

\* floor(n / d) for d > 0 and any integer n
FloorDiv(n, d) == IF n >= 0 THEN n \div d ELSE -((-n + d - 1) \div d)

\* Number.prototype.toFixed on the exact quotient n / d (d > 0): nearest
\* integer, a tie going away from zero
ToFixed(n, d) ==
    IF n >= 0 THEN (2 * n + d) \div (2 * d) ELSE -((2 * (-n) + d) \div (2 * d))

\* Math.round on n / d (d > 0): nearest integer, a tie going up
MathRound(n, d) == FloorDiv(2 * n + d, 2 * d)

RECURSIVE SeqSum(_)
SeqSum(s) == IF s = <<>> THEN 0 ELSE Head(s) + SeqSum(Tail(s))

\* Array.prototype.slice(0, n)
SliceFirst(s, n) == SubSeq(s, 1, Min(n, Len(s)))
\* Array.prototype.slice(-n)
SliceLast(s, n) == SubSeq(s, Max(1, Len(s) - n + 1), Len(s))

\* Array.prototype.filter
SelectIdx(s, Test(_)) == {i \in DOMAIN s : Test(s[i])}
Count(s, Test(_)) == Cardinality(SelectIdx(s, Test))

\* ------------------------------------------------------------------- state
VARIABLES
    bots,                 \* DataManager.bots
    tradingHistory,       \* DataManager.tradingHistory, newest first
    aiDecisions,          \* DataManager.aiDecisions, newest first
    marketData,           \* DataManager.marketData, in insertion order
    isRunning,            \* TradingEngine.isRunning
    tradingInterval,      \* TradingEngine.tradingInterval holds a handle
    marketUpdateInterval, \* TradingEngine.marketUpdateInterval holds a handle
    monitoringInterval,   \* AIAgent.monitoringInterval holds a handle
    timers,               \* live interval timers of each kind (the runtime)
    botModels,            \* AIAgent.botModels
    marketAnalysis,       \* AIAgent.marketAnalysis
    overallConfidence,    \* AIAgent.overallConfidence
    tradeCount,           \* history: trades each bot has executed
    winCount,             \* history: of those, the ones with profit > 0
    env,                  \* the run's environment: the inputs it may draw
    persisted,            \* the localStorage item "fleetAI_data"
    app,                  \* FleetAIApp.dataManager, a DataManager of its own
    appEngine,            \* FleetAIApp.tradingEngine.dataManager, a third one
    constructed,          \* the DOMContentLoaded listeners built their objects
    alertShown,           \* the text of the last alert()
    cycles,               \* executeTradingCycle calls suspended at an await:
                          \* of each, the active bots it has yet to trade
    called,               \* the last direct call of one of the pure methods:
                          \* its arguments and what it returned or left
    manager               \* a DataManager driven through its own methods: its
                          \* fields, its defaultData, the fields that are the
                          \* very objects of defaultData, the item it saved
                          \* and the method called last

storeVars == <<bots, tradingHistory, aiDecisions, marketData>>
timerVars == <<isRunning, tradingInterval, marketUpdateInterval,
               monitoringInterval, timers>>
agentVars == <<botModels, marketAnalysis, overallConfidence>>
histVars == <<tradeCount, winCount>>
pageVars == <<app, appEngine, constructed, alertShown>>
vars == <<storeVars, timerVars, agentVars, histVars, env, persisted, pageVars,
          cycles, called, manager>>

\* ------------------------------------------------------------ the Store
DefaultBot(id, name, type, strategy, risk) ==
    [id |-> id, name |-> name, type |-> type, status |-> "inactive",
     strategy |-> strategy, profit |-> 0, trades |-> 0, successRate |-> 0,
     riskLevel |-> risk, performance |-> 0]

DefaultBots ==
    << DefaultBot(1, "Alpha Arbitrage", "arbitrage", "Multi-Exchange Arbitrage", 30),
       DefaultBot(2, "Beta Momentum", "momentum", "Trend Following", 50),
       DefaultBot(3, "Gamma Market Maker", "market_making", "Liquidity Provision", 40),
       DefaultBot(4, "Delta Scalper", "scalping", "High-Frequency Trading", 60),
       DefaultBot(5, "Epsilon AI", "ai_adaptive", "Neural Network Adaptive", 70) >>

\* bots.find((b) => b.id === botId): the index of the bot, 0 when there is none
FindBot(bs, botId) ==
    IF \E i \in DOMAIN bs : bs[i].id = botId
    THEN CHOOSE i \in DOMAIN bs :
             bs[i].id = botId /\ \A j \in DOMAIN bs : bs[j].id = botId => i <= j
    ELSE 0

\* Object.assign(bot, updates): updates is a record of some of the bot's fields
Assign(bot, updates) ==
    [f \in DOMAIN bot |-> IF f \in DOMAIN updates THEN updates[f] ELSE bot[f]]

\* an updateBot that assigns the updates to every bot
UpdateEveryBot(bs, botId, updates) ==
    [i \in DOMAIN bs |-> Assign(bs[i], updates)]

\* DataManager.updateBot: the bots afterwards
UpdateBot(bs, botId, updates) ==
    LET i == FindBot(bs, botId)
    IN  IF i # 0 THEN [bs EXCEPT ![i] = Assign(bs[i], updates)] ELSE bs

\* DataManager.updateBot: the value returned
UpdateBotResult(bs, botId) == IF FindBot(bs, botId) # 0 THEN "true" ELSE "false"

\* an addTrade without the cap
AddTradeUncapped(history, trade) == <<trade>> \o history

\* DataManager.addTrade
AddTrade(history, trade) ==
    LET grown == <<trade>> \o history
    IN  IF Len(grown) > MaxTradingHistory
        THEN SliceFirst(grown, MaxTradingHistory) ELSE grown

\* DataManager.addAIDecision
AddAIDecision(decisions, decision) ==
    LET grown == <<decision>> \o decisions
    IN  IF Len(grown) > MaxAIDecisions
        THEN SliceFirst(grown, MaxAIDecisions) ELSE grown

Decision(type, message, bot, score, confidence) ==
    [type |-> type, message |-> message, bot |-> bot, score |-> score,
     confidence |-> confidence]

\* DataManager.getBotPerformance; successRate is kept as the exact fraction
\* 100 * profitableTrades / totalTrades (0 when there are no trades)
GetBotPerformance(history, botId) ==
    LET mine == SelectIdx(history, LAMBDA t : t.botId = botId)
        won == {i \in mine : history[i].profit > 0}
        RECURSIVE Total(_)
        Total(S) == IF S = {} THEN 0
                    ELSE LET i == CHOOSE i \in S : TRUE
                         IN  history[i].profit + Total(S \ {i})
    IN  [totalTrades |-> Cardinality(mine),
         profitableTrades |-> Cardinality(won),
         totalProfit |-> Total(mine)]

\* DataManager.getOverallStats: successRate < 40, over the whole log
OverallSuccessRateBelow(history, percent) ==
    LET total == Len(history)
        won == Count(history, LAMBDA t : t.profit > 0)
    IN  IF total > 0 THEN 100 * won < percent * total ELSE 0 < percent

\* ------------------------------------------------ the persisted snapshot
\* defaultData.settings, in hundredths
DefaultSettings ==
    [riskManagement |-> TRUE, autoRebalance |-> TRUE, maxDrawdown |-> 10,
     dailyTarget |-> 5]

\* the five fields of a DataManager that saveData writes.  The engine's
\* DataManager keeps the first four in the variables bots, tradingHistory,
\* aiDecisions and marketData; nothing assigns its settings after loadData,
\* and every snapshot written carries defaultData's.
StoreOf(bs, history, decisions, market) ==
    [bots |-> bs, tradingHistory |-> history, aiDecisions |-> decisions,
     marketData |-> market, settings |-> DefaultSettings]

\* DataManager.defaultData
DefaultData == StoreOf(DefaultBots, <<>>, <<>>, <<>>)

\* JSON.stringify leaves out a property whose value is undefined (the
\* confidence of the decision optimizeBot logs for an unknown bot); reading
\* the property of the parsed object yields undefined again.
JsonValue(v) == IF v = Undefined THEN Omitted ELSE v
JsValue(v) == IF v = Omitted THEN Undefined ELSE v

\* JSON.stringify of the object saveData builds: the item written
Stringify(store) ==
    [state |-> "json",
     bots |-> store.bots,
     tradingHistory |-> store.tradingHistory,
     aiDecisions |-> [i \in DOMAIN store.aiDecisions |->
                         [store.aiDecisions[i] EXCEPT
                             !.confidence = JsonValue(@)]],
     marketData |-> store.marketData,
     settings |-> store.settings]

\* JSON.parse of an item saveData wrote
Parse(item) ==
    [bots |-> item.bots,
     tradingHistory |-> item.tradingHistory,
     aiDecisions |-> [i \in DOMAIN item.aiDecisions |->
                         [item.aiDecisions[i] EXCEPT !.confidence = JsValue(@)]],
     marketData |-> item.marketData,
     settings |-> item.settings]

\* localStorage.getItem returns null: nothing was ever saved
Absent ==
    [state |-> "absent", bots |-> <<>>, tradingHistory |-> <<>>,
     aiDecisions |-> <<>>, marketData |-> <<>>, settings |-> DefaultSettings]

\* the item holds a string JSON.parse rejects
Corrupt == [Absent EXCEPT !.state = "corrupt"]

\* DataManager.loadData on the item: whether JSON.parse threw, the fields of
\* the DataManager afterwards and the item afterwards
LoadData(item) ==
    CASE item.state = "json" ->
             [threw |-> FALSE, store |-> Parse(item), item |-> item]
      [] item.state = "absent" ->
             [threw |-> FALSE, store |-> DefaultData,
              item |-> Stringify(DefaultData)]
      [] OTHER ->
             [threw |-> TRUE, store |-> StoreOf(<<>>, <<>>, <<>>, <<>>),
              item |-> item]

\* ------------------------------------- a DataManager and its defaultData
\* Object.assign(this, this.defaultData), in loadData without an item and in
\* resetData, makes this.bots, this.tradingHistory and this.aiDecisions the
\* very arrays of defaultData: updateBot's Object.assign(bot, updates) and the
\* unshift of addTrade and addAIDecision then write into defaultData as well,
\* until the field is assigned another array (the slice at the cap).
ManagerFields == {"bots", "tradingHistory", "aiDecisions"}

\* new DataManager() with this item in localStorage
NewManager(item) ==
    [bots |-> LoadData(item).store.bots,
     tradingHistory |-> LoadData(item).store.tradingHistory,
     aiDecisions |-> LoadData(item).store.aiDecisions,
     defaultData |-> [bots |-> DefaultBots, tradingHistory |-> <<>>,
                      aiDecisions |-> <<>>],
     shared |-> IF item.state = "absent" THEN ManagerFields ELSE {},
     item |-> LoadData(item).item,
     last |-> "constructor"]

\* DataManager.saveData
ManagerSaved(m) ==
    [m EXCEPT !.item = Stringify(StoreOf(m.bots, m.tradingHistory, m.aiDecisions,
                                         <<>>))]

\* DataManager.updateBot
ManagerUpdateBot(m, botId, updates) ==
    IF FindBot(m.bots, botId) = 0 THEN [m EXCEPT !.last = "updateBot"]
    ELSE ManagerSaved(
             [m EXCEPT !.last = "updateBot",
                       !.bots = UpdateBot(m.bots, botId, updates),
                       !.defaultData.bots =
                           IF "bots" \in m.shared
                           THEN UpdateBot(m.bots, botId, updates) ELSE @])

\* DataManager.addTrade
ManagerAddTrade(m, trade) ==
    ManagerSaved(
        [m EXCEPT !.last = "addTrade",
                  !.tradingHistory = AddTrade(m.tradingHistory, trade),
                  !.defaultData.tradingHistory =
                      IF "tradingHistory" \in m.shared
                      THEN <<trade>> \o m.tradingHistory ELSE @,
                  !.shared =
                      IF Len(m.tradingHistory) + 1 > MaxTradingHistory
                      THEN @ \ {"tradingHistory"} ELSE @])

\* DataManager.addAIDecision
ManagerAddAIDecision(m, decision) ==
    ManagerSaved(
        [m EXCEPT !.last = "addAIDecision",
                  !.aiDecisions = AddAIDecision(m.aiDecisions, decision),
                  !.defaultData.aiDecisions =
                      IF "aiDecisions" \in m.shared
                      THEN <<decision>> \o m.aiDecisions ELSE @,
                  !.shared =
                      IF Len(m.aiDecisions) + 1 > MaxAIDecisions
                      THEN @ \ {"aiDecisions"} ELSE @])

\* DataManager.resetData
ManagerResetData(m) ==
    ManagerSaved(
        [m EXCEPT !.last = "resetData",
                  !.bots = m.defaultData.bots,
                  !.tradingHistory = m.defaultData.tradingHistory,
                  !.aiDecisions = m.defaultData.aiDecisions,
                  !.shared = ManagerFields])

\* a handler whose Store operations write nothing
SaveSkipped == UNCHANGED persisted

\* DataManager.saveData of the engine's DataManager, as the last Store
\* operation of a handler
EngineSaved ==
    persisted' = Stringify(StoreOf(bots', tradingHistory', aiDecisions', marketData'))

\* ----------------------------------------------- AIAgent: the bot models
\* AIAgent.initializeBotModels: one model per bot, keyed by the bot's id
InitialModel ==
    [tradeHistory |-> <<>>,
     performanceMetrics |-> [winRate |-> <<0, 1>>, avgProfit |-> <<0, 1>>,
                             riskAdjustedReturn |-> <<0, 1>>],
     lastOptimization |-> FALSE]

InitializeBotModels(bs) == [id \in {bs[i].id : i \in DOMAIN bs} |-> InitialModel]

\* botModels.get(botId) finds a model
HasModel(models, botId) == botId \in DOMAIN models

\* an updateBotModel over the whole history
UpdateBotModelUnwindowed(model) ==
    IF Len(model.tradeHistory) < MetricsMinSamples THEN model
    ELSE LET winning == Count(model.tradeHistory, LAMBDA p : p > 0)
             totalProfit == SeqSum(model.tradeHistory)
             total == Len(model.tradeHistory)
         IN  [model EXCEPT !.performanceMetrics =
                 [winRate |-> <<100 * winning, total>>,
                  avgProfit |-> <<totalProfit, total>>,
                  riskAdjustedReturn |->
                      IF winning = 0 THEN <<totalProfit, total>>
                      ELSE <<totalProfit, winning>>]]

\* AIAgent.updateBotModel: the metrics over the last MetricsWindow entries, as
\* exact fractions <<numerator, denominator>>; winRate / 100 || 1 is 1 when
\* winRate is 0
UpdateBotModel(model) ==
    IF Len(model.tradeHistory) < MetricsMinSamples THEN model
    ELSE LET recentTrades == SliceLast(model.tradeHistory, MetricsWindow)
             winning == Count(recentTrades, LAMBDA p : p > 0)
             totalProfit == SeqSum(recentTrades)
             total == Len(recentTrades)
         IN  [model EXCEPT !.performanceMetrics =
                 [winRate |-> <<100 * winning, total>>,
                  avgProfit |-> <<totalProfit, total>>,
                  riskAdjustedReturn |->
                      IF winning = 0 THEN <<totalProfit, total>>
                      ELSE <<totalProfit, winning>>]]

\* AIAgent.learnFromTrade on the model found, with the history capped at cap
\* (the entry is kept by its profit)
LearnInto(model, profit, cap) ==
    LET pushed == Append(model.tradeHistory, profit)
        kept == IF Len(pushed) > cap THEN SliceLast(pushed, cap) ELSE pushed
    IN  UpdateBotModel([model EXCEPT !.tradeHistory = kept])

\* AIAgent.learnFromTrade: the models afterwards
LearnFromTrade(models, botId, profit) ==
    IF ~HasModel(models, botId) THEN models
    ELSE [models EXCEPT ![botId] = LearnInto(models[botId], profit, MaxModelHistory)]

\* ----------------------------------------- AIAgent: the ai_adaptive strategy
\* performance.successRate as the fraction 100 * won / total, 0 / 1 with no trade
RateNum(perf) == IF perf.totalTrades > 0 THEN 100 * perf.profitableTrades ELSE 0
RateDen(perf) == IF perf.totalTrades > 0 THEN perf.totalTrades ELSE 1

\* AIAgent.shouldTrade; cond is in thousandths, gate is the Math.random() sample
ShouldTrade(models, bs, history, botId, cond, gate) ==
    IF ~HasModel(models, botId) THEN FALSE
    ELSE LET bot == bs[FindBot(bs, botId)]
             perf == GetBotPerformance(history, botId)
             n == RateDen(perf)
             \* tradeScore before the risk adjustment, times 1000 * n
             score == (cond.volatility * 30 + Abs(cond.trend) * 25
                          + cond.volume * 20) * n
                      + 150 * RateNum(perf)
                      + Min(100000, perf.totalProfit) * n
         IN  score * bot.riskLevel > 45 * 1000 * n * 100 /\ gate > 300

\* AIAgent.getTradeType
GetTradeType(cond) == IF cond.trend > 0 THEN "buy" ELSE "sell"

\* AIAgent.getConfidence as the fraction <<numerator, denominator>>
GetConfidence(models, bs, history, confidence, botId) ==
    IF ~HasModel(models, botId) \/ FindBot(bs, botId) = 0 THEN <<50, 1>>
    ELSE LET bot == bs[FindBot(bs, botId)]
             perf == GetBotPerformance(history, botId)
             n == RateDen(perf)
             den == 2000 * n * 100
             num == (confidence * 2000 * n
                        + (RateNum(perf) - 50 * n) * 1000
                        + Min(20000, perf.totalProfit) * 2 * n) * bot.riskLevel
         IN  IF num < 20 * den THEN <<20, 1>>
             ELSE IF num > 95 * den THEN <<95, 1>>
             ELSE <<num, den>>

\* ------------------------------------- TradingEngine: the decision engine
\* TradingEngine.analyzeMarketConditions from three Math.random() samples
\* (the fourth, marketSentiment, is read by nothing)
Conditions(draw) ==
    [volatility |-> draw.volatility,
     trend |-> 2 * (draw.trend - 500),
     volume |-> draw.volume]

\* the strategy's own execute flag, before the confidence gate
StrategyExecute(models, bs, history, bot, cond, draw) ==
    CASE bot.type = "arbitrage" -> cond.volatility > 300
      [] bot.type = "momentum" -> Abs(cond.trend) > 200
      [] bot.type = "market_making" -> cond.volume > 400
      [] bot.type = "scalping" -> cond.volatility > 200
      [] bot.type = "ai_adaptive" ->
             ShouldTrade(models, bs, history, bot.id, cond, draw.gate)
      [] OTHER -> FALSE

StrategyType(bot, cond, draw) ==
    CASE bot.type = "arbitrage" -> IF draw.side > 500 THEN "buy" ELSE "sell"
      [] bot.type = "momentum" -> IF cond.trend > 0 THEN "buy" ELSE "sell"
      [] bot.type = "market_making" -> IF draw.side > 500 THEN "buy" ELSE "sell"
      [] bot.type = "scalping" -> IF draw.side > 700 THEN "buy" ELSE "sell"
      [] bot.type = "ai_adaptive" -> GetTradeType(cond)
      [] OTHER -> "buy"

\* the strategy's confidence, unrounded, as <<numerator, denominator>>
StrategyConfidence(models, bs, history, confidence, bot, cond) ==
    CASE bot.type = "arbitrage" -> <<cond.volatility * 80, 1000>>
      [] bot.type = "momentum" -> <<Abs(cond.trend) * 90, 1000>>
      [] bot.type = "market_making" -> <<cond.volume * 70, 1000>>
      [] bot.type = "scalping" -> <<cond.volatility * 85, 1000>>
      [] bot.type = "ai_adaptive" ->
             GetConfidence(models, bs, history, confidence, bot.id)
      [] OTHER -> <<0, 1>>

\* TradingEngine.getRandomSymbol
GetRandomSymbol(market, sample) ==
    IF Len(market) = 0 THEN "BTC/USD"
    ELSE market[(sample * Len(market)) \div 1000 + 1].symbol

\* a generateTradeDecision that gates on the rounded confidence
GenerateTradeDecisionRounded(models, bs, history, market, confidence, bot, draw) ==
    LET cond == Conditions(draw)
        conf == StrategyConfidence(models, bs, history, confidence, bot, cond)
    IN  [execute |-> StrategyExecute(models, bs, history, bot, cond, draw)
                        /\ MathRound(conf[1], conf[2]) > 50,
         type |-> StrategyType(bot, cond, draw),
         symbol |-> GetRandomSymbol(market, draw.symbol),
         amount |-> 100000 + draw.amount * 400,
         confidence |-> MathRound(conf[1], conf[2])]

\* TradingEngine.generateTradeDecision
GenerateTradeDecision(models, bs, history, market, confidence, bot, draw) ==
    LET cond == Conditions(draw)
        conf == StrategyConfidence(models, bs, history, confidence, bot, cond)
    IN  [execute |-> StrategyExecute(models, bs, history, bot, cond, draw)
                        /\ conf[1] > 50 * conf[2],
         type |-> StrategyType(bot, cond, draw),
         symbol |-> GetRandomSymbol(market, draw.symbol),
         amount |-> 100000 + draw.amount * 400,
         confidence |-> MathRound(conf[1], conf[2])]

\* TradingEngine.calculateTradeProfit, in cents
CalculateTradeProfit(bot, decision, mult) ==
    ToFixed(decision.confidence * (100 - bot.riskLevel) * (500 + mult) - 500000,
            10000)

\* TradingEngine.calculatePerformanceScore, in tenths, from the unrounded
\* success rate 100 * won / total and the trade's profit in cents
CalculatePerformanceScore(won, total, recentProfit) ==
    ToFixed(3000 * won + 2 * total * Max(0, recentProfit), 5 * total)

\* --------------------------------------------------- the market simulator
\* the tracked symbols of updateMarketData with getVolatility, in hundredths
\* (price, which getBasePrice feeds, is written into the quote and read by
\* the renderer alone: the quote is kept without it)
Symbols ==
    << [symbol |-> "BTC/USD", volatility |-> 2],
       [symbol |-> "ETH/USD", volatility |-> 3],
       [symbol |-> "ADA/USD", volatility |-> 5],
       [symbol |-> "DOT/USD", volatility |-> 4],
       [symbol |-> "LINK/USD", volatility |-> 6] >>

\* one quote of updateMarketData from its two Math.random() samples and the
\* clock
Quote(sym, draw, timestamp) ==
    [symbol |-> sym.symbol,
     change |-> ToFixed((draw.change - 500) * sym.volatility, 10),
     volume |-> draw.volume * 1000,
     timestamp |-> timestamp]

\* new Date() at a refresh, kept modulo two: two successive refreshes are a
\* timer period apart, so their timestamps differ
Clock(market) == IF market = <<>> THEN 0 ELSE 1 - market[1].timestamp

\* the snapshot updateMarketData builds: a full replacement
MarketSnapshot(market, draws) ==
    [i \in DOMAIN Symbols |-> Quote(Symbols[i], draws[i], Clock(market))]

\* ------------------------------------------- AIAgent: the market analysis
\* marketAnalysis is kept by its sums over the count quotes: volatility is
\* absSum / (100 * count) percent, trend is sum / (100 * count), volume is
\* volume / (1000000 * count).  With count = 0 the three are NaN and every
\* comparison with them is false.  sentiment "undefined" is the empty object
\* the constructor leaves.
EmptyAnalysis ==
    [count |-> 0, absSum |-> 0, sum |-> 0, volume |-> 0, sentiment |-> "undefined"]

VolatilityBelow(a, h) == a.count > 0 /\ a.absSum < h * a.count
VolatilityAbove(a, h) == a.count > 0 /\ a.absSum > h * a.count
TrendAbove(a, h) == a.count > 0 /\ a.sum > h * a.count
TrendBelow(a, h) == a.count > 0 /\ a.sum < h * a.count
AbsTrendAbove(a, h) == a.count > 0 /\ Abs(a.sum) > h * a.count
VolumeAbove(a, thousandths) ==
    a.count > 0 /\ a.volume > thousandths * 1000 * a.count

\* a classification that tests the bull band before the strong_bull band
CalculateMarketSentimentBullFirst(a) ==
    IF TrendAbove(a, 20) /\ VolatilityBelow(a, 5) THEN "bull"
    ELSE IF TrendAbove(a, 50) /\ VolatilityBelow(a, 3) THEN "strong_bull"
    ELSE IF TrendBelow(a, -50) /\ VolatilityAbove(a, 8) THEN "strong_bear"
    ELSE IF TrendBelow(a, -20) /\ VolatilityAbove(a, 5) THEN "bear"
    ELSE "neutral"

\* AIAgent.calculateMarketSentiment
CalculateMarketSentiment(a) ==
    IF TrendAbove(a, 50) /\ VolatilityBelow(a, 3) THEN "strong_bull"
    ELSE IF TrendAbove(a, 20) /\ VolatilityBelow(a, 5) THEN "bull"
    ELSE IF TrendBelow(a, -50) /\ VolatilityAbove(a, 8) THEN "strong_bear"
    ELSE IF TrendBelow(a, -20) /\ VolatilityAbove(a, 5) THEN "bear"
    ELSE "neutral"

\* an analysis whose volatility is the mean of |change| as a fraction, not
\* in percent
AnalyzeMarketConditionsAsFraction(market) ==
    LET sums == [count |-> Len(market),
                 absSum |-> SeqSum([i \in DOMAIN market |-> Abs(market[i].change)])
                                \div 100,
                 sum |-> SeqSum([i \in DOMAIN market |-> market[i].change]),
                 volume |-> SeqSum([i \in DOMAIN market |-> market[i].volume]),
                 sentiment |-> "undefined"]
    IN  [sums EXCEPT !.sentiment = CalculateMarketSentiment(sums)]

\* AIAgent.analyzeMarketConditions: the analysis stored
AnalyzeMarketConditions(market) ==
    LET sums == [count |-> Len(market),
                 absSum |-> SeqSum([i \in DOMAIN market |-> Abs(market[i].change)]),
                 sum |-> SeqSum([i \in DOMAIN market |-> market[i].change]),
                 volume |-> SeqSum([i \in DOMAIN market |-> market[i].volume]),
                 sentiment |-> "undefined"]
    IN  [sums EXCEPT !.sentiment = CalculateMarketSentiment(sums)]

\* AIAgent.updateConfidence
UpdateConfidence(a) ==
    LET confidence == 75
            + (IF VolatilityBelow(a, 4) THEN 10 ELSE 0)
            + (IF AbsTrendAbove(a, 30) THEN 5 ELSE 0)
            + (IF VolumeAbove(a, 700) THEN 5 ELSE 0)
            - (IF VolatilityAbove(a, 8) THEN 15 ELSE 0)
    IN  Max(20, Min(95, confidence))

\* ------------------------------------------ AIAgent: the portfolio health
\* AIAgent.detectHighCorrelation
DetectHighCorrelation(history) ==
    LET recentTrades == SliceFirst(history, RecentTrades)
        directions == [i \in DOMAIN recentTrades |->
                          IF recentTrades[i].success THEN 1 ELSE -1]
    IN  Len(recentTrades) > 0
        /\ 10 * Abs(SeqSum(directions)) > 7 * Len(recentTrades)

\* an assessPortfolioHealth that logs at a score of 70 too
PortfolioHealthAtSeventy(bs, history) ==
    LET active == SelectIdx(bs, LAMBDA b : b.status = "active")
        losing == {i \in active : bs[i].profit < 0}
        low == OverallSuccessRateBelow(history, 40)
        drawdown == 10 * Cardinality(losing) > 6 * Cardinality(active)
        correlated == DetectHighCorrelation(history)
        healthScore == 100 - (IF low THEN 30 ELSE 0)
                           - (IF drawdown THEN 25 ELSE 0)
                           - (IF correlated THEN 20 ELSE 0)
        first == IF low THEN "Low success rate detected"
                 ELSE IF drawdown THEN "Multiple bots in drawdown"
                 ELSE "High correlation detected between bots"
    IN  [healthScore |-> healthScore, first |-> first,
         logged |-> healthScore <= 70 /\ (low \/ drawdown \/ correlated)]

\* AIAgent.assessPortfolioHealth: the score, the first recommendation and
\* whether a decision is logged
PortfolioHealth(bs, history) ==
    LET active == SelectIdx(bs, LAMBDA b : b.status = "active")
        losing == {i \in active : bs[i].profit < 0}
        low == OverallSuccessRateBelow(history, 40)
        drawdown == 10 * Cardinality(losing) > 6 * Cardinality(active)
        correlated == DetectHighCorrelation(history)
        healthScore == 100 - (IF low THEN 30 ELSE 0)
                           - (IF drawdown THEN 25 ELSE 0)
                           - (IF correlated THEN 20 ELSE 0)
        first == IF low THEN "Low success rate detected"
                 ELSE IF drawdown THEN "Multiple bots in drawdown"
                 ELSE "High correlation detected between bots"
    IN  [healthScore |-> healthScore, first |-> first,
         logged |-> healthScore < 70 /\ (low \/ drawdown \/ correlated)]

\* AIAgent.assessPortfolioHealth: the decision log afterwards
AssessPortfolioHealth(bs, history, decisions) ==
    LET Log(health) ==
            IF health.logged
            THEN AddAIDecision(decisions,
                     Decision("portfolio_health", health.first, "",
                              health.healthScore, 85))
            ELSE decisions
    IN  Log(PortfolioHealth(bs, history))

\* --------------------------------------- AIAgent: the strategic decisions
\* bots.forEach over the active bots: each one's riskLevel set by NewRisk
AdjustActive(bs, NewRisk(_)) ==
    [i \in DOMAIN bs |->
        IF bs[i].status = "active"
        THEN Assign(bs[i], [riskLevel |-> NewRisk(bs[i].riskLevel)])
        ELSE bs[i]]

\* AIAgent.activateAggressiveStrategies: the bots afterwards
ActivateAggressiveStrategies(bs) ==
    AdjustActive(bs, LAMBDA r : Min(RiskMax, r + 10))

\* AIAgent.activateDefensiveStrategies: the bots afterwards
ActivateDefensiveStrategies(bs) ==
    AdjustActive(bs, LAMBDA r : Max(RiskMin, r - 15))

\* an adjustRiskParameters that does not look at the status
AdjustRiskOfAll(bs, adjustment) ==
    [i \in DOMAIN bs |->
        Assign(bs[i], [riskLevel |->
                           Max(RiskMin, Min(RiskMax, bs[i].riskLevel + adjustment))])]

\* an adjustRiskParameters without the clamp
AdjustRiskUnclamped(bs, adjustment) ==
    AdjustActive(bs, LAMBDA r : r + adjustment)

\* AIAgent.adjustRiskParameters
AdjustRiskParameters(bs, adjustment) ==
    AdjustActive(bs, LAMBDA r : Max(RiskMin, Min(RiskMax, r + adjustment)))

\* the methods makeStrategicDecisions calls that the class does not define:
\* the call throws a TypeError and the handler ends there
Throws(sentiment) == sentiment \in {"bull", "strong_bear"}

\* AIAgent.makeStrategicDecisions: the bots and the log afterwards
MakeStrategicDecisions(bs, decisions, a) ==
    IF Throws(a.sentiment) THEN [bots |-> bs, aiDecisions |-> decisions]
    ELSE LET branch ==
                 CASE a.sentiment = "strong_bull" ->
                          [bots |-> ActivateAggressiveStrategies(bs),
                           aiDecisions |-> AddAIDecision(decisions,
                               Decision("strategy", "Bull market detected", "", 0, 80))]
                   [] a.sentiment = "bear" ->
                          [bots |-> ActivateDefensiveStrategies(bs),
                           aiDecisions |-> AddAIDecision(decisions,
                               Decision("strategy", "Bear market detected", "", 0, 75))]
                   [] OTHER ->
                          [bots |-> bs,
                           aiDecisions |-> AddAIDecision(decisions,
                               Decision("strategy", "Neutral market", "", 0, 70))]
         IN  [branch EXCEPT !.bots =
                 IF VolatilityAbove(a, 8) THEN AdjustRiskParameters(branch.bots, -10)
                 ELSE IF VolatilityBelow(a, 3) THEN AdjustRiskParameters(branch.bots, 5)
                 ELSE branch.bots]

\* AIAgent.optimizeBot: what it returns and the bots afterwards
AgentOptimizeBot(bs, models, history, botId) ==
    LET i == FindBot(bs, botId)
        perf == GetBotPerformance(history, botId)
    IN  IF i = 0 \/ ~HasModel(models, botId)
        THEN [success |-> FALSE, botName |-> "undefined", message |-> "Bot not found",
              confidence |-> Undefined, bots |-> bs]
        ELSE IF RateNum(perf) < 40 * RateDen(perf)
        THEN [success |-> TRUE, botName |-> bs[i].name, message |-> "Reduced risk",
              confidence |-> 80,
              bots |-> UpdateBot(bs, botId,
                          [riskLevel |-> Max(RiskMin, bs[i].riskLevel - 20)])]
        ELSE IF RateNum(perf) > 70 * RateDen(perf) /\ perf.totalProfit > 5000
        THEN [success |-> TRUE, botName |-> bs[i].name, message |-> "Increased risk",
              confidence |-> 85,
              bots |-> UpdateBot(bs, botId,
                          [riskLevel |-> Min(RiskMax, bs[i].riskLevel + 15)])]
        ELSE [success |-> TRUE, botName |-> bs[i].name,
              message |-> "Maintaining current parameters", confidence |-> 70,
              bots |-> bs]

\* ------------------------------------------------------------ the inputs
\* Math.random() samples of one market refresh, per symbol
FlatMarket == [i \in DOMAIN Symbols |-> [change |-> 500, volume |-> 500]]
EthFalls ==
    [i \in DOMAIN Symbols |-> [change |-> IF i = 2 THEN 0 ELSE 500, volume |-> 500]]
SteadyMarket == [i \in DOMAIN Symbols |-> [change |-> 515, volume |-> 500]]
AllFall == [i \in DOMAIN Symbols |-> [change |-> 0, volume |-> 900]]
AllRise == [i \in DOMAIN Symbols |-> [change |-> 999, volume |-> 900]]

\* Math.random() samples of one executeBotTrade: conditions under which every
\* strategy's own condition holds, with the best and with the worst market
\* multiplier; conditions under which momentum alone trades; conditions
\* under which nothing trades
HotHigh ==
    [volatility |-> 900, trend |-> 950, volume |-> 900, side |-> 600,
     gate |-> 500, symbol |-> 0, amount |-> 250, mult |-> 999]
HotLow == [HotHigh EXCEPT !.mult = 0]
TrendOnly == [HotHigh EXCEPT !.volatility = 100, !.trend = 999, !.volume = 100]
Quiet == [HotHigh EXCEPT !.volatility = 100, !.trend = 500, !.volume = 100]

\* the samples of one trading cycle, per bot: every bot of the cycle draws d
SameDraw(d) == [i \in DOMAIN DefaultBots |-> d]

\* a bot id that matches no bot
UnknownBot == Len(DefaultBots) + 1

\* The environment of a run: the market refreshes and the trading-cycle
\* samples the random source may yield, the bot ids the operator toggles and
\* optimizes, and the budget of executed trades per bot.
Environment(market, cycle, toggle, optimize, executed) ==
    [market |-> market, cycle |-> cycle, toggle |-> toggle,
     optimize |-> optimize, executed |-> executed]

\* a falling market, every strategy trading, the operator on bot 1 and on a
\* bot that does not exist
ControlRun ==
    Environment({EthFalls}, {SameDraw(HotHigh)}, {1, UnknownBot}, {}, MaxExecuted)
\* a steady market, momentum alone trading, the operator optimizing it
OptimizeRun ==
    Environment({SteadyMarket}, {SameDraw(TrendOnly)}, {}, {2}, MaxExecutedDeep)
\* a flat market, nothing trading, the operator on bot 5
CalmRun ==
    Environment({FlatMarket}, {SameDraw(Quiet)}, {5}, {}, MaxExecuted)
\* a flat market, every strategy trading at the worst multiplier
LossRun ==
    Environment({FlatMarket}, {SameDraw(HotLow)}, {}, {}, MaxExecuted)
\* a market where everything falls or everything rises, nothing trading, the
\* operator optimizing a bot that does not exist
CrashRun ==
    Environment({AllFall, AllRise}, {SameDraw(Quiet)}, {}, {UnknownBot}, MaxExecuted)

\* a flat market, every strategy trading once, the operator on bot 1 and
\* optimizing a bot that does not exist, while the page imports, resets and
\* is loaded again
StoreRun ==
    Environment({FlatMarket}, {SameDraw(HotHigh)}, {1}, {UnknownBot},
                MaxExecutedStore)

Environments == {ControlRun, OptimizeRun, CalmRun, LossRun, CrashRun}

\* The files the operator imports.  parses: JSON.parse accepts the text;
\* has: the keys whose value in the parsed object is truthy.
RequiredKeys == {"bots", "tradingHistory", "aiDecisions"}

ImportedBots == [DefaultBots EXCEPT ![2].riskLevel = 20, ![2].profit = 1250]

FullFile ==
    [parses |-> TRUE, has |-> RequiredKeys, bots |-> ImportedBots,
     tradingHistory |-> <<>>, aiDecisions |-> <<>>]
FileWithout(key) == [FullFile EXCEPT !.has = RequiredKeys \ {key}]
BrokenFile == [FullFile EXCEPT !.parses = FALSE, !.has = {}]

ImportFiles == {FullFile, BrokenFile} \cup {FileWithout(key) : key \in RequiredKeys}

\* ------------------------------------------------------------------- Init
\* new DataManager() with nothing persisted, new AIAgent(), new TradingEngine()
Constructed ==
    /\ bots = DefaultBots
    /\ tradingHistory = <<>>
    /\ aiDecisions = <<>>
    /\ marketData = <<>>
    /\ isRunning = FALSE
    /\ tradingInterval = FALSE
    /\ marketUpdateInterval = FALSE
    /\ monitoringInterval = FALSE
    /\ timers = [trading |-> 0, market |-> 0, monitor |-> 0]
    /\ botModels = InitializeBotModels(DefaultBots)
    /\ marketAnalysis = EmptyAnalysis
    /\ overallConfidence = 75
    /\ tradeCount = [i \in DOMAIN DefaultBots |-> 0]
    /\ winCount = [i \in DOMAIN DefaultBots |-> 0]
    /\ persisted = LoadData(Absent).item
    /\ app = LoadData(persisted).store
    /\ appEngine = LoadData(persisted).store
    /\ constructed = TRUE
    /\ alertShown = ""
    /\ cycles = <<>>
    /\ called = [op |-> "none"]
    /\ manager = NewManager(Absent)

Init == Constructed /\ env \in Environments

\* ------------------------------------------------------- market refresh
\* TradingEngine.initialize, run once by the DOMContentLoaded listener: a
\* first refresh, then the market timer
Initialize ==
    /\ ~marketUpdateInterval
    /\ \E draws \in env.market : marketData' = MarketSnapshot(marketData, draws)
    /\ marketUpdateInterval' = TRUE
    /\ timers' = [timers EXCEPT !.market = @ + 1]
    /\ UNCHANGED <<bots, tradingHistory, aiDecisions, isRunning, tradingInterval,
                   monitoringInterval, agentVars, histVars, env, called, manager, pageVars, cycles>>
    /\ EngineSaved

\* a tick of the market timer: TradingEngine.updateMarketData
UpdateMarketData ==
    /\ timers.market > 0
    /\ \E draws \in env.market : marketData' = MarketSnapshot(marketData, draws)
    /\ UNCHANGED <<bots, tradingHistory, aiDecisions, timerVars, agentVars, histVars,
                   env, called, manager, pageVars, cycles>>
    /\ EngineSaved

\* ------------------------------------------------------------ start / stop
\* a forEach that updates no bot
SetNoStatus(bs, status) == bs

\* bots.forEach((bot) => updateBot(bot.id, { status }))
SetAllStatus(bs, status) == [i \in DOMAIN bs |-> Assign(bs[i], [status |-> status])]

\* a start without the isRunning guard
StartAllBotsUnguarded ==
    /\ isRunning' = TRUE
    /\ bots' = SetAllStatus(bots, "active")
    /\ aiDecisions' =
           AddAIDecision(
               AddAIDecision(aiDecisions,
                   Decision("system", "All trading bots activated", "", 0, 95)),
               Decision("system", "AI Agent started continuous market monitoring",
                        "", 0, 95))
    /\ tradingInterval' = TRUE
    /\ monitoringInterval' = TRUE
    /\ timers' = [timers EXCEPT !.trading = @ + 1, !.monitor = @ + 1]
    /\ UNCHANGED <<tradingHistory, marketData, marketUpdateInterval,
                   agentVars, histVars, env, called, manager, pageVars, cycles>>
    /\ EngineSaved

\* a start whose startMonitoring adds no record
StartAllBotsOneRecord ==
    IF isRunning
    THEN UNCHANGED vars
    ELSE /\ isRunning' = TRUE
         /\ bots' = SetAllStatus(bots, "active")
         /\ aiDecisions' =
                AddAIDecision(aiDecisions,
                    Decision("system", "All trading bots activated", "", 0, 95))
         /\ tradingInterval' = TRUE
         /\ monitoringInterval' = TRUE
         /\ timers' = [timers EXCEPT !.trading = @ + 1, !.monitor = @ + 1]
         /\ UNCHANGED <<tradingHistory, marketData, marketUpdateInterval,
                        agentVars, histVars, env, called, manager, pageVars, cycles>>
         /\ EngineSaved

\* TradingEngine.startAllBots with startTradingCycle and AIAgent.startMonitoring
StartAllBots ==
    IF isRunning
    THEN UNCHANGED vars
    ELSE /\ isRunning' = TRUE
         /\ bots' = SetAllStatus(bots, "active")
         /\ aiDecisions' =
                AddAIDecision(
                    AddAIDecision(aiDecisions,
                        Decision("system", "All trading bots activated", "", 0, 95)),
                    Decision("system", "AI Agent started continuous market monitoring",
                             "", 0, 95))
         /\ tradingInterval' = TRUE
         /\ monitoringInterval' = TRUE
         /\ timers' = [timers EXCEPT !.trading = @ + 1, !.monitor = @ + 1]
         /\ UNCHANGED <<tradingHistory, marketData, marketUpdateInterval,
                        agentVars, histVars, env, called, manager, pageVars, cycles>>
         /\ EngineSaved

\* a stop that clears the flag and the statuses and leaves the timers
StopFlagOnly ==
    /\ isRunning' = FALSE
    /\ bots' = SetAllStatus(bots, "inactive")
    /\ aiDecisions' = AddAIDecision(aiDecisions,
           Decision("emergency", "EMERGENCY STOP: All trading bots deactivated",
                    "", 0, 100))
    /\ UNCHANGED <<tradingHistory, marketData, tradingInterval, marketUpdateInterval,
                   monitoringInterval, timers, agentVars, histVars, env, called, manager, pageVars, cycles>>
    /\ EngineSaved

\* a stop that does not call stopMonitoring
StopWithoutMonitor ==
    /\ isRunning' = FALSE
    /\ tradingInterval' = FALSE
    /\ timers' = [timers EXCEPT !.trading = IF tradingInterval THEN @ - 1 ELSE @]
    /\ bots' = SetAllStatus(bots, "inactive")
    /\ aiDecisions' = AddAIDecision(aiDecisions,
           Decision("emergency", "EMERGENCY STOP: All trading bots deactivated",
                    "", 0, 100))
    /\ UNCHANGED <<tradingHistory, marketData, marketUpdateInterval,
                   monitoringInterval, agentVars, histVars, env, called, manager, pageVars,
                   cycles>>
    /\ EngineSaved

\* a stop that clears the market timer as well
StopAllTimers ==
    /\ isRunning' = FALSE
    /\ tradingInterval' = FALSE
    /\ monitoringInterval' = FALSE
    /\ marketUpdateInterval' = FALSE
    /\ timers' = [trading |-> 0, market |-> 0, monitor |-> 0]
    /\ bots' = SetAllStatus(bots, "inactive")
    /\ aiDecisions' = AddAIDecision(aiDecisions,
           Decision("emergency", "EMERGENCY STOP: All trading bots deactivated",
                    "", 0, 100))
    /\ UNCHANGED <<tradingHistory, marketData, agentVars, histVars, env, called, manager, pageVars, cycles>>
    /\ EngineSaved

\* TradingEngine.stopAllBots with AIAgent.stopMonitoring
StopAllBots ==
    /\ isRunning' = FALSE
    /\ tradingInterval' = FALSE
    /\ monitoringInterval' = FALSE
    /\ timers' = [timers EXCEPT
           !.trading = IF tradingInterval THEN @ - 1 ELSE @,
           !.monitor = IF monitoringInterval THEN @ - 1 ELSE @]
    /\ bots' = SetAllStatus(bots, "inactive")
    /\ aiDecisions' = AddAIDecision(aiDecisions,
           Decision("emergency", "EMERGENCY STOP: All trading bots deactivated",
                    "", 0, 100))
    /\ UNCHANGED <<tradingHistory, marketData, marketUpdateInterval, agentVars,
                   histVars, env, called, manager, pageVars, cycles>>
    /\ EngineSaved

\* ------------------------------------------------- toggleBot / optimizeBot
\* TradingEngine.toggleBot
ToggleBot(botId) ==
    LET i == FindBot(bots, botId)
        newStatus == IF bots[i].status = "active" THEN "inactive" ELSE "active"
    IN  /\ IF i # 0
           THEN /\ bots' = UpdateBot(bots, botId, [status |-> newStatus])
                /\ aiDecisions' = AddAIDecision(aiDecisions,
                       Decision("bot_control",
                                IF newStatus = "active" THEN "activated"
                                ELSE "deactivated",
                                bots[i].name, 0, 90))
           ELSE UNCHANGED <<bots, aiDecisions>>
        /\ UNCHANGED <<tradingHistory, marketData, timerVars, agentVars, histVars,
                       env, called, manager, pageVars, cycles>>
        /\ IF i # 0 THEN EngineSaved ELSE UNCHANGED persisted

\* TradingEngine.toggleBot: the value returned.  Neither path has a return
\* statement.
ToggleBotResult(bs, botId) ==
    IF FindBot(bs, botId) # 0 THEN "undefined" ELSE "undefined"

\* TradingEngine.optimizeBot: the value returned.  The method has no return
\* statement; what AIAgent.optimizeBot returned goes into the decision only.
OptimizeBotResult(bs, models, history, botId) ==
    IF AgentOptimizeBot(bs, models, history, botId).success
    THEN "undefined" ELSE "undefined"

\* TradingEngine.optimizeBot
OptimizeBot(botId) ==
    LET optimization == AgentOptimizeBot(bots, botModels, tradingHistory, botId)
    IN  /\ bots' = optimization.bots
        /\ botModels' = IF optimization.success
                        THEN [botModels EXCEPT ![botId].lastOptimization = TRUE]
                        ELSE botModels
        /\ aiDecisions' = AddAIDecision(aiDecisions,
               Decision("optimization", optimization.message, optimization.botName,
                        0, optimization.confidence))
        /\ UNCHANGED <<tradingHistory, marketData, timerVars, marketAnalysis,
                       overallConfidence, histVars, env, called, manager, pageVars, cycles>>
        /\ EngineSaved

\* ------------------------------------------------------ the trading cycle
\* TradingEngine.executeBotTrade on the bot at index i.  w holds what a cycle
\* changes.
ExecuteBotTrade(w, i, draw) ==
    LET Record(bot, decision, profit, performance) ==
            LET success == profit > 0
                newTrades == performance.totalTrades + 1
                newProfitableTrades ==
                    performance.profitableTrades + (IF success THEN 1 ELSE 0)
            IN  [bots |-> UpdateBot(w.bots, bot.id,
                     [profit |-> performance.totalProfit + profit,
                      trades |-> newTrades,
                      successRate |-> ToFixed(10000 * newProfitableTrades, newTrades),
                      performance |-> CalculatePerformanceScore(
                          newProfitableTrades, newTrades, profit)]),
                 tradingHistory |-> AddTrade(w.tradingHistory,
                     [botId |-> bot.id, botName |-> bot.name,
                      symbol |-> decision.symbol, type |-> decision.type,
                      amount |-> decision.amount, profit |-> profit,
                      success |-> success]),
                 botModels |-> LearnFromTrade(w.botModels, bot.id, profit),
                 tradeCount |-> [w.tradeCount EXCEPT ![i] = @ + 1],
                 winCount |->
                     [w.winCount EXCEPT ![i] = @ + (IF success THEN 1 ELSE 0)]]
        Trade(bot, decision) ==
            IF ~decision.execute THEN w
            ELSE Record(bot, decision,
                        CalculateTradeProfit(bot, decision, draw.mult),
                        GetBotPerformance(w.tradingHistory, bot.id))
        TradeOf(bot) ==
            Trade(bot, GenerateTradeDecision(w.botModels, w.bots, w.tradingHistory,
                           marketData, overallConfidence, bot, draw))
    IN  TradeOf(w.bots[i])

\* the for loop of executeTradingCycle over activeBots, the bots that were
\* active when the cycle began, in the order of the bots array
RECURSIVE TradeActiveBots(_, _, _, _)
TradeActiveBots(w, i, activeBots, draws) ==
    IF i > Len(w.bots) THEN w
    ELSE TradeActiveBots(
             IF i \in activeBots THEN ExecuteBotTrade(w, i, draws[i]) ELSE w,
             i + 1, activeBots, draws)

\* a tick of the trading timer: TradingEngine.executeTradingCycle
ExecuteTradingCycle ==
    LET Strategic(w, after) ==
            /\ bots' = after.bots
            /\ aiDecisions' = after.aiDecisions
            /\ tradingHistory' = w.tradingHistory
            /\ botModels' = w.botModels
            /\ tradeCount' = w.tradeCount
            /\ winCount' = w.winCount
        Traded(w) ==
            Strategic(w, MakeStrategicDecisions(w.bots, aiDecisions, marketAnalysis))
    IN  /\ timers.trading > 0
        /\ \A i \in DOMAIN tradeCount : tradeCount[i] < env.executed
        /\ \E draws \in env.cycle :
               Traded(TradeActiveBots(
                          [bots |-> bots, tradingHistory |-> tradingHistory,
                           botModels |-> botModels, tradeCount |-> tradeCount,
                           winCount |-> winCount],
                          1, {j \in DOMAIN bots : bots[j].status = "active"}, draws))
        /\ UNCHANGED <<marketData, timerVars, marketAnalysis, overallConfidence, env, called, manager, pageVars, cycles>>
        /\ IF \E i \in DOMAIN tradeCount : tradeCount'[i] # tradeCount[i]
           THEN EngineSaved
           ELSE IF Throws(marketAnalysis.sentiment)
           THEN UNCHANGED persisted ELSE EngineSaved

\* ------------------------------------- the trading cycle, await by await
\* executeTradingCycle is an async function: it runs from the timer's call to
\* its first await, and each later piece runs as a microtask.  An invocation
\* in flight is kept in cycles by the active bots it has traded (done) and has
\* yet to trade (todo), as indexes of the bots array.

\* a runtime that starts a task while continuations are pending
ThreadFree == TRUE

\* The event loop starts a task (a timer callback, an event handler) only when
\* the microtask queue is empty: no executeTradingCycle is suspended.
ThreadIdle == cycles = <<>>

\* bots.filter((bot) => bot.status === "active"), by index
RECURSIVE ActiveBots(_, _)
ActiveBots(bs, i) ==
    IF i > Len(bs) THEN <<>>
    ELSE (IF bs[i].status = "active" THEN <<i>> ELSE <<>>) \o ActiveBots(bs, i + 1)

\* a for...of that takes the last element left
LastToTrade(todo) == todo[Len(todo)]

\* for (const bot of activeBots): the element the iterator yields next
NextToTrade(todo) == Head(todo)

\* for...of advances: the elements left once bot i is taken
LeftToTrade(todo, i) == SelectSeq(todo, LAMBDA j : j # i)

\* one piece of executeTradingCycle, from the loop's test to the next await
\* or to the end: the invocation has traded done and has todo left; others
\* are the invocations suspended behind it
CyclePiece(done, todo, others) ==
    LET Applied(w) ==
            /\ bots' = w.bots
            /\ tradingHistory' = w.tradingHistory
            /\ botModels' = w.botModels
            /\ tradeCount' = w.tradeCount
            /\ winCount' = w.winCount
            /\ IF w.tradeCount # tradeCount THEN EngineSaved ELSE UNCHANGED persisted
        TradeBot(i) ==
            /\ UNCHANGED aiDecisions
            /\ \E draws \in env.cycle :
                   Applied(ExecuteBotTrade(
                       [bots |-> bots, tradingHistory |-> tradingHistory,
                        botModels |-> botModels, tradeCount |-> tradeCount,
                        winCount |-> winCount], i, draws[i]))
            /\ cycles' = Append(others, [done |-> Append(done, i),
                                         todo |-> LeftToTrade(todo, i)])
        Finished(after) ==
            /\ bots' = after.bots
            /\ aiDecisions' = after.aiDecisions
            /\ cycles' = others
            /\ UNCHANGED <<tradingHistory, botModels, histVars>>
            /\ IF Throws(marketAnalysis.sentiment)
               THEN UNCHANGED persisted ELSE EngineSaved
    IN  /\ UNCHANGED <<marketData, timerVars, marketAnalysis, overallConfidence,
                       env, called, manager, pageVars>>
        /\ IF todo # <<>>
           THEN TradeBot(NextToTrade(todo))
           ELSE Finished(MakeStrategicDecisions(bots, aiDecisions, marketAnalysis))

\* a tick of the trading timer: executeTradingCycle up to its first await
TradingTick ==
    /\ timers.trading > 0
    /\ ThreadIdle
    /\ \A i \in DOMAIN tradeCount : tradeCount[i] < env.executed
    /\ CyclePiece(<<>>, ActiveBots(bots, 1), cycles)

\* the microtask that resumes the executeTradingCycle suspended first
ResumeCycle ==
    /\ cycles # <<>>
    /\ CyclePiece(Head(cycles).done, Head(cycles).todo, Tail(cycles))

\* ------------------------------------------------------ the monitor tick
\* a tick of the monitoring timer: analyzeMarketConditions,
\* assessPortfolioHealth, makeStrategicDecisions
MonitorTick ==
    /\ timers.monitor > 0
    /\ LET analysis == AnalyzeMarketConditions(marketData)
           assessed == AssessPortfolioHealth(bots, tradingHistory, aiDecisions)
           after == MakeStrategicDecisions(bots, assessed, analysis)
       IN  /\ marketAnalysis' = analysis
           /\ overallConfidence' = UpdateConfidence(analysis)
           /\ bots' = after.bots
           /\ aiDecisions' = after.aiDecisions
    /\ UNCHANGED <<tradingHistory, marketData, timerVars, botModels, histVars, env, called, manager, pageVars, cycles>>
    /\ IF PortfolioHealth(bots, tradingHistory).logged
          \/ ~Throws(marketAnalysis'.sentiment)
       THEN EngineSaved ELSE UNCHANGED persisted

\* ------------------------------------------------- import, reset, reload
\* the engine's objects, which the page's handlers leave alone
engineVars == <<storeVars, timerVars, agentVars, histVars, cycles>>

\* an import that assigns without looking at the keys
ImportDataUnchecked(file) ==
    /\ constructed
    /\ app' = [app EXCEPT !.bots = file.bots,
                          !.tradingHistory = file.tradingHistory,
                          !.aiDecisions = file.aiDecisions]
    /\ persisted' = Stringify(app')
    /\ alertShown' = "Data imported successfully!"
    /\ UNCHANGED <<engineVars, env, called, manager, appEngine, constructed>>

\* FleetAIApp.importData: the onload handler of its FileReader
ImportData(file) ==
    /\ constructed
    /\ IF ~file.parses
       THEN /\ alertShown' = "Error importing data"
            /\ UNCHANGED <<app, persisted>>
       ELSE IF RequiredKeys \subseteq file.has
       THEN /\ app' = [app EXCEPT !.bots = file.bots,
                                  !.tradingHistory = file.tradingHistory,
                                  !.aiDecisions = file.aiDecisions]
            /\ persisted' = Stringify(app')
            /\ alertShown' = "Data imported successfully!"
       ELSE /\ alertShown' = "Invalid data format."
            /\ UNCHANGED <<app, persisted>>
    /\ UNCHANGED <<engineVars, env, called, manager, appEngine, constructed>>

\* DataManager.resetData on the page's DataManager, whose fields no method
\* writes in place (importData assigns new arrays): its defaultData is as
\* constructed.  The fields and the item afterwards
ResetData == [store |-> DefaultData, item |-> Stringify(DefaultData)]

\* FleetAIApp.resetApplication once confirm() is accepted: resetData on the
\* page's DataManager, then stopAllBots on the page's own TradingEngine,
\* whose updateBot and addAIDecision save that engine's DataManager
ResetApplication ==
    /\ constructed
    /\ app' = ResetData.store
    /\ appEngine' =
           [appEngine EXCEPT
               !.bots = SetAllStatus(@, "inactive"),
               !.aiDecisions = AddAIDecision(@,
                   Decision("emergency",
                            "EMERGENCY STOP: All trading bots deactivated",
                            "", 0, 100))]
    /\ persisted' = Stringify(appEngine')
    /\ alertShown' = "Application data has been reset successfully."
    /\ UNCHANGED <<engineVars, env, called, manager, constructed>>

\* the page is loaded again with this item in localStorage: DOMContentLoaded builds a TradingEngine and a
\* FleetAIApp, three DataManagers in all, each calling loadData; a throw in
\* loadData leaves the listeners without their objects
Reload(item) ==
    LET Built(loaded) ==
            /\ constructed' = ~loaded.threw
            /\ bots' = loaded.store.bots
            /\ tradingHistory' = loaded.store.tradingHistory
            /\ aiDecisions' = loaded.store.aiDecisions
            /\ marketData' = loaded.store.marketData
            /\ app' = loaded.store
            /\ appEngine' = loaded.store
            /\ persisted' = loaded.item
            /\ botModels' = InitializeBotModels(loaded.store.bots)
    IN  /\ Built(LoadData(item))
        /\ isRunning' = FALSE
        /\ tradingInterval' = FALSE
        /\ marketUpdateInterval' = FALSE
        /\ monitoringInterval' = FALSE
        /\ timers' = [trading |-> 0, market |-> 0, monitor |-> 0]
        /\ marketAnalysis' = EmptyAnalysis
        /\ overallConfidence' = 75
        /\ alertShown' = ""
        /\ cycles' = <<>>
        /\ UNCHANGED <<histVars, env, called, manager>>

\* ------------------------------------------- direct calls of pure methods
\* each behaviour calls one method on the engine's objects; only
\* learnFromTrade, which accumulates, is called again and again
\* calculateMarketSentiment(trend, volatility), both in hundredths
TrendSamples == {-60, -51, -50, -21, -20, 0, 20, 21, 50, 51, 60}
VolatilitySamples == {2, 3, 4, 5, 6, 8, 9}

SentimentCall ==
    /\ called.op = "none"
    /\ \E trend \in TrendSamples, volatility \in VolatilitySamples :
           called' =
               [op |-> "calculateMarketSentiment", trend |-> trend,
                volatility |-> volatility,
                sentiment |-> CalculateMarketSentiment(
                    [count |-> 1, absSum |-> volatility, sum |-> trend,
                     volume |-> 0, sentiment |-> "undefined"])]
    /\ UNCHANGED <<engineVars, env, manager, persisted, pageVars>>

\* analyzeMarketConditions, then makeStrategicDecisions, on a snapshot that
\* updateMarketData builds from sampled Math.random() values
ChangeSamples == {0, 495, 505, 999}

AnalyzeCall ==
    /\ called.op = "none"
    /\ \E changes \in [DOMAIN Symbols -> ChangeSamples] :
           LET Analyzed(market, a) ==
                   called' =
                       [op |-> "analyzeMarketConditions", market |-> market,
                        analysis |-> a,
                        after |-> MakeStrategicDecisions(bots, aiDecisions, a).bots]
               Refreshed(market) == Analyzed(market, AnalyzeMarketConditions(market))
           IN  Refreshed(MarketSnapshot(marketData,
                   [i \in DOMAIN Symbols |-> [change |-> changes[i], volume |-> 500]]))
    /\ UNCHANGED <<engineVars, env, manager, persisted, pageVars>>

\* learnFromTrade on one model, call after call; the profit of the k-th trade
\* follows the pattern the first call chose
Patterns == {"wins", "losses", "alternating", "loss first", "wins first"}

PatternProfit(pattern, k) ==
    CASE pattern = "wins" -> 150
      [] pattern = "losses" -> -100
      [] pattern = "alternating" -> IF k % 2 = 1 THEN 150 ELSE -100
      [] pattern = "loss first" -> IF k = 1 THEN -100 ELSE 150
      [] OTHER -> IF k <= 3 THEN 150 ELSE -100

LearnCall ==
    /\ \E pattern \in Patterns :
           LET Learned(model) ==
                   /\ Len(model.tradeHistory) < MaxLearned
                   /\ called' =
                          [op |-> "learnFromTrade", pattern |-> pattern,
                           model |-> LearnInto(model,
                               PatternProfit(pattern, Len(model.tradeHistory) + 1),
                               ModelHistoryCap)]
           IN  \/ called.op = "learnFromTrade" /\ called.pattern = pattern
                      /\ Learned(called.model)
               \/ called.op = "none" /\ Learned(InitialModel)
    /\ UNCHANGED <<engineVars, env, manager, persisted, pageVars>>

\* generateTradeDecision and executeBotTrade on a bot of the fleet as the
\* engine has left it, under sampled conditions
DecisionDraws ==
    {[HotHigh EXCEPT !.volatility = v, !.trend = t, !.volume = u, !.gate = g] :
        v \in {200, 201, 300, 301, 588, 589, 625, 626, 900},
        t \in {100, 500, 610, 777, 778},
        u \in {400, 401, 714, 715, 900},
        g \in {300, 301}}

DecisionCall ==
    /\ called.op = "none"
    /\ \E i \in DOMAIN bots, draw \in DecisionDraws :
           called' =
               [op |-> "generateTradeDecision", bot |-> bots[i], draw |-> draw,
                decision |-> GenerateTradeDecision(botModels, bots, tradingHistory,
                                 marketData, overallConfidence, bots[i], draw),
                appended |->
                    Len(ExecuteBotTrade(
                            [bots |-> bots, tradingHistory |-> tradingHistory,
                             botModels |-> botModels, tradeCount |-> tradeCount,
                             winCount |-> winCount], i, draw).tradingHistory)
                        - Len(tradingHistory)]
    /\ UNCHANGED <<engineVars, env, manager, persisted, pageVars>>

\* --------------------------------------- calls of a DataManager's methods
\* the arguments of the calls: the updates startAllBots and
\* adjustRiskParameters pass, a trade of bot 1, the decision of a start
ManagerUpdates == {[status |-> "active"], [riskLevel |-> 20]}

ManagerTrade ==
    [botId |-> 1, botName |-> DefaultBots[1].name, symbol |-> "BTC/USD",
     type |-> "buy", amount |-> 200000, profit |-> 150, success |-> TRUE]

ManagerDecision == Decision("system", "All trading bots activated", "", 0, 95)

Construct ==
    /\ manager' = NewManager(manager.item)
    /\ UNCHANGED <<engineVars, env, called, persisted, pageVars>>

UpdateBotCall ==
    /\ \E botId \in {1, UnknownBot}, updates \in ManagerUpdates :
           manager' = ManagerUpdateBot(manager, botId, updates)
    /\ UNCHANGED <<engineVars, env, called, persisted, pageVars>>

\* the arrays of defaultData grow without a cap: the calls that make them
\* grow stop one past the cap of the log
AddTradeCall ==
    /\ Len(manager.defaultData.tradingHistory) <= MaxTradingHistory
    /\ manager' = ManagerAddTrade(manager, ManagerTrade)
    /\ UNCHANGED <<engineVars, env, called, persisted, pageVars>>

AddAIDecisionCall ==
    /\ Len(manager.defaultData.aiDecisions) <= MaxAIDecisions
    /\ manager' = ManagerAddAIDecision(manager, ManagerDecision)
    /\ UNCHANGED <<engineVars, env, called, persisted, pageVars>>

ResetDataCall ==
    /\ manager' = ManagerResetData(manager)
    /\ UNCHANGED <<engineVars, env, called, persisted, pageVars>>

ManagerNext ==
    \/ Construct
    \/ UpdateBotCall
    \/ AddTradeCall
    \/ AddAIDecisionCall
    \/ ResetDataCall

\* ------------------------------------------------------ the specification
Next ==
    \/ Initialize
    \/ UpdateMarketData
    \/ StartAllBots
    \/ StopAllBots
    \/ \E botId \in env.toggle : ToggleBot(botId)
    \/ \E botId \in env.optimize : OptimizeBot(botId)
    \/ ExecuteTradingCycle
    \/ MonitorTick

Spec == Init /\ [][Next]_vars

\* the runs in which the operator starts, stops and toggles
InitControl == Constructed /\ env \in {ControlRun, CalmRun, CrashRun}

ControlSpec == InitControl /\ [][Next]_vars

\* the runs in which nothing trades
InitCalm == Constructed /\ env \in {CalmRun, CrashRun}

\* The market timer is a setInterval of the event loop: while it is set, its
\* callback is eventually run.
FairSpec == InitCalm /\ [][Next]_vars /\ WF_vars(UpdateMarketData)

\* a steady market, every strategy trading, the operator toggling and
\* optimizing bot 1
EvictRun ==
    Environment({SteadyMarket}, {SameDraw(HotHigh)}, {1}, {1}, MaxExecuted)

InitOptimize == Constructed /\ env = EvictRun

OptimizeSpec == InitOptimize /\ [][Next]_vars

\* a steady market, every strategy trading, the operator on bot 1, the
\* trading cycle taken await by await
StepRun ==
    Environment({SteadyMarket}, {SameDraw(HotHigh)}, {1}, {}, MaxExecutedStore)

InitStep == Constructed /\ env = StepRun

\* Every handler but the continuation of a suspended executeTradingCycle is a
\* task of the event loop.
StepNext ==
    \/ ThreadIdle /\ Initialize
    \/ ThreadIdle /\ UpdateMarketData
    \/ ThreadIdle /\ StartAllBots
    \/ ThreadIdle /\ StopAllBots
    \/ ThreadIdle /\ \E botId \in env.toggle : ToggleBot(botId)
    \/ ThreadIdle /\ MonitorTick
    \/ TradingTick
    \/ ResumeCycle

StepSpec == InitStep /\ [][StepNext]_vars

\* the pure methods called directly on the engine's objects, as constructed
\* or as initialize, startAllBots and the monitor's ticks in a flat market
\* leave them
InitCall == Constructed /\ env = CalmRun

CallNext ==
    \/ called.op = "none" /\ Initialize
    \/ called.op = "none" /\ StartAllBots
    \/ called.op = "none" /\ MonitorTick
    \/ SentimentCall
    \/ AnalyzeCall
    \/ LearnCall
    \/ DecisionCall

CallSpec == InitCall /\ [][CallNext]_vars

\* a DataManager called method by method, from an empty localStorage
ManagerSpec == InitCall /\ [][ManagerNext]_vars

\* the run in which the page imports, resets and is loaded again
InitStore == Constructed /\ env = StoreRun

\* The engine initializes, starts and trades while the page imports, resets
\* and is loaded again, with what was saved last or with a corrupt item.  A
\* handler of the engine runs only when the listeners built the engine.
StoreNext ==
    \/ constructed /\ Initialize
    \/ constructed /\ StartAllBots
    \/ constructed /\ ExecuteTradingCycle
    \/ \E file \in ImportFiles : ImportData(file)
    \/ ResetApplication
    \/ \E item \in {persisted, Corrupt} : Reload(item)

StoreSpec == InitStore /\ [][StoreNext]_vars

\* ================================================================ claims
BotIds == {DefaultBots[i].id : i \in DOMAIN DefaultBots}

\* the newest record of the decision log, if any, has this type and message
Newest(type, message) ==
    /\ aiDecisions # <<>>
    /\ Head(aiDecisions).type = type
    /\ Head(aiDecisions).message = message

\* C1: every bot's riskLevel lies in [0.1, 0.9] in every state reached from
\* the default fleet by start, stop, toggleBot, optimizeBot, trading cycles
\* and monitor ticks.
C1_RiskInRange ==
    \A i \in DOMAIN bots :
        /\ bots[i].riskLevel >= RiskMin
        /\ bots[i].riskLevel <= RiskMax

\* C1 witness: optimizeBot has just raised the risk of a bot that stood less
\* than one step below the upper end, and the bot stands at the upper end.
C1_Witness ==
    /\ Newest("optimization", "Increased risk")
    /\ \E i \in DOMAIN bots :
           /\ Head(aiDecisions).bot = bots[i].name
           /\ bots[i].riskLevel = RiskMax

\* C2: after every executed trade of a bot, its stored successRate is
\* 100 x (its executed trades with profit > 0) / (its executed trades),
\* within 0.01, also once the trade log has evicted entries.
C2_SuccessRateOfExecuted ==
    \A i \in DOMAIN bots :
        tradeCount[i] > 0 =>
            Abs(bots[i].successRate * tradeCount[i] - 10000 * winCount[i])
                <= tradeCount[i]

\* C3: the trade log, the decision log and every bot's learning history stay
\* within their caps.
C3_LogsCapped ==
    /\ Len(tradingHistory) <= MaxTradingHistory
    /\ Len(aiDecisions) <= MaxAIDecisions
    /\ \A id \in DOMAIN botModels :
           Len(botModels[id].tradeHistory) <= MaxModelHistory

\* C3 witness: all three are full and the trade log has evicted a trade.
C3_Witness ==
    /\ Len(tradingHistory) = MaxTradingHistory
    /\ Len(aiDecisions) = MaxAIDecisions
    /\ \E id \in DOMAIN botModels :
           Len(botModels[id].tradeHistory) = MaxModelHistory
    /\ \E i \in DOMAIN tradeCount : tradeCount[i] > MaxModelHistory
    /\ tradeCount[1] + tradeCount[2] + tradeCount[3] + tradeCount[4] + tradeCount[5]
           > MaxTradingHistory

\* new is old with k records unshifted by addAIDecision: the k newest are
\* of that type, the rest is old, cut to the log's cap
Unshifted(old, new, k, type) ==
    /\ Len(new) = Min(Len(old) + k, MaxAIDecisions)
    /\ \A j \in 1..Len(new) :
           IF j <= k THEN new[j].type = type ELSE new[j] = old[j - k]

AllStatus(bs, status) == \A i \in DOMAIN bs : bs[i].status = status

C5_StartWhileRunning ==
    [][(isRunning /\ StartAllBots) =>
           /\ bots' = bots
           /\ aiDecisions' = aiDecisions
           /\ tradingHistory' = tradingHistory
           /\ timerVars' = timerVars]_vars

\* C5 witness: the scheduler runs and a bot has been toggled inactive since
\* the start.
C5_Witness ==
    /\ isRunning
    /\ Newest("bot_control", "deactivated")
    /\ \E i \in DOMAIN bots : bots[i].status = "inactive"
    /\ \E i \in DOMAIN bots : bots[i].status = "active"

\* C6: every stop(), running or not, leaves the running flag false, every bot
\* inactive, the trading-cycle and monitor timers cancelled, and the decision
\* log grown by exactly one record, of category emergency.
C6_Stop ==
    [][StopAllBots =>
           /\ ~isRunning'
           /\ AllStatus(bots', "inactive")
           /\ ~tradingInterval' /\ ~monitoringInterval'
           /\ timers'.trading = 0 /\ timers'.monitor = 0
           /\ Unshifted(aiDecisions, aiDecisions', 1, "emergency")]_vars

\* C6 witness: after a run that traded, stop() has run twice in a row, the
\* second time while not running.
C6_Witness ==
    /\ ~isRunning
    /\ AllStatus(bots, "inactive")
    /\ timers.trading = 0 /\ timers.monitor = 0
    /\ Len(aiDecisions) >= 2
    /\ aiDecisions[1].type = "emergency"
    /\ aiDecisions[2].type = "emergency"
    /\ \E i \in DOMAIN tradeCount : tradeCount[i] > 0

SameRiskLevels(old, new) ==
    \A i \in DOMAIN old : new[i].riskLevel = old[i].riskLevel

\* C7: while the scheduler is stopped no trading-cycle tick and no monitor
\* tick runs, no trade is appended, and no riskLevel changes except by an
\* optimizeBot call, also when a bot was re-activated with toggleBot.
C7_NoTickWhileStopped ==
    [][~isRunning =>
           /\ ~ExecuteTradingCycle
           /\ ~MonitorTick
           /\ tradingHistory' = tradingHistory
           /\ \/ SameRiskLevels(bots, bots')
              \/ \E botId \in env.optimize : OptimizeBot(botId)]_vars

\* C7 witness: after a run that traded, the scheduler is stopped and a bot
\* has been re-activated with toggleBot.
C7_Witness ==
    /\ ~isRunning
    /\ timers.trading = 0 /\ timers.monitor = 0
    /\ Newest("bot_control", "activated")
    /\ \E i \in DOMAIN bots : bots[i].status = "active"
    /\ tradingHistory # <<>>

\* the timestamp of the market snapshot
Timestamp == IF marketData = <<>> THEN Undefined ELSE marketData[1].timestamp

\* C8: the market timer, once set by initialize, is never cleared by start,
\* stop or toggleBot, and with a fair timer a later refresh replaces the
\* snapshot from every state, whatever the running flag.
C8_MarketRefreshLives ==
    /\ [](timers.market > 0 => [](timers.market > 0 /\ marketUpdateInterval))
    /\ \A stamp \in {0, 1} : \A running \in BOOLEAN :
           (timers.market > 0 /\ isRunning = running /\ Timestamp = stamp)
               ~> (Timestamp # stamp)

\* C8 witness: after a run in which the monitor ticked the scheduler is
\* stopped, the market timer is set and the snapshot is a refresh's, not
\* initialize's.
C8_Witness ==
    /\ timers.market > 0
    /\ ~isRunning
    /\ Newest("emergency", "EMERGENCY STOP: All trading bots deactivated")
    /\ marketAnalysis.sentiment # "undefined"
    /\ Timestamp = 1

\* C9: toggleBot(X) for an existing bot X flips X's status, leaves X's other
\* fields, every other bot, the trade log and the running flag unchanged and
\* appends exactly one bot_control decision naming X.
C9_ToggleFrame ==
    [][\A botId \in BotIds :
           ToggleBot(botId) =>
               LET i == FindBot(bots, botId)
               IN  /\ bots[i].status = "active" => bots'[i].status = "inactive"
                   /\ bots[i].status = "inactive" => bots'[i].status = "active"
                   /\ [bots'[i] EXCEPT !.status = bots[i].status] = bots[i]
                   /\ \A j \in DOMAIN bots : j # i => bots'[j] = bots[j]
                   /\ DOMAIN bots' = DOMAIN bots
                   /\ tradingHistory' = tradingHistory
                   /\ isRunning' = isRunning
                   /\ Unshifted(aiDecisions, aiDecisions', 1, "bot_control")
                   /\ aiDecisions'[1].bot = bots[i].name]_vars

\* C9 witness: during a run that has traded, toggleBot has just deactivated
\* one bot and the others are active.
C9_Witness ==
    /\ isRunning
    /\ tradingHistory # <<>>
    /\ Newest("bot_control", "deactivated")
    /\ \E i \in DOMAIN bots :
           /\ Head(aiDecisions).bot = bots[i].name
           /\ bots[i].status = "inactive"
           /\ \A j \in DOMAIN bots : j # i => bots[j].status = "active"

\* what a call can hand back to its caller
Returned == {"true", "false", "undefined"}

\* C10: for a bot id that matches no bot, updateBot, toggleBot and optimizeBot
\* each return a failure indicator, a value they return for no existing bot,
\* and none of them raises: stated of every toggleBot and optimizeBot call
\* with such an id, and of the updateBot call it would make.
C10_UnknownIdFails ==
    [][\A botId \in env.toggle \cup env.optimize :
           (FindBot(bots, botId) = 0 /\ (ToggleBot(botId) \/ OptimizeBot(botId))) =>
               /\ UpdateBotResult(bots, botId) \in Returned
               /\ ToggleBotResult(bots, botId) \in Returned
               /\ OptimizeBotResult(bots, botModels, tradingHistory, botId)
                      \in Returned
               /\ \A known \in BotIds :
                      /\ UpdateBotResult(bots, botId) # UpdateBotResult(bots, known)
                      /\ ToggleBotResult(bots, botId) # ToggleBotResult(bots, known)
                      /\ OptimizeBotResult(bots, botModels, tradingHistory, botId)
                             # OptimizeBotResult(bots, botModels, tradingHistory,
                                                 known)]_vars

\* the engine's DataManager as saveData would write it
EngineStore == StoreOf(bots, tradingHistory, aiDecisions, marketData)

\* C11: an import of a file that parses and lacks any of bots, tradingHistory
\* or aiDecisions is rejected: the alert reports the invalid format, and the
\* page's DataManager, the other two DataManagers and the persisted item are
\* exactly as before.
C11_ImportRejected ==
    [][\A file \in ImportFiles :
           (file.parses /\ ~(RequiredKeys \subseteq file.has) /\ ImportData(file)) =>
               /\ alertShown' = "Invalid data format."
               /\ app' = app
               /\ persisted' = persisted
               /\ appEngine' = appEngine
               /\ EngineStore' = EngineStore]_vars

\* C11 witness: an import has just been rejected while the page's
\* DataManager holds an earlier, accepted import that the item still carries,
\* in a run that traded.
C11_Witness ==
    /\ alertShown = "Invalid data format."
    /\ app.bots = ImportedBots
    /\ persisted.state = "json"
    /\ Parse(persisted) = app
    /\ tradingHistory # <<>>

\* C12: a page load that finds a corrupt item does not fail: the objects are
\* built, the Store holds the default dataset and the default is saved,
\* exactly as when no item exists.
C12_CorruptLoadsDefault ==
    [][Reload(Corrupt) =>
           /\ constructed'
           /\ EngineStore' = LoadData(Absent).store
           /\ persisted' = LoadData(Absent).item]_vars

\* C13: when a handler's last mutating Store operation returns, the item
\* parses to the fields of the DataManager that performed it: the engine's
\* after a handler of the engine that changed its Store (updateBot, addTrade,
\* addAIDecision, market refresh), the page's after an accepted import and
\* after resetData, and the page's engine's after the stopAllBots that
\* resetApplication runs next.
C13_WriteThrough ==
    [][/\ (pageVars' = pageVars /\ storeVars' # storeVars /\ Next) =>
              /\ persisted'.state = "json"
              /\ Parse(persisted') = EngineStore'
       /\ ((\E file \in ImportFiles : ImportData(file))
              /\ alertShown' = "Data imported successfully!") =>
              /\ persisted'.state = "json"
              /\ Parse(persisted') = app'
       /\ ResetApplication =>
              /\ app' = ResetData.store
              /\ Parse(ResetData.item) = app'
              /\ persisted'.state = "json"
              /\ Parse(persisted') = appEngine']_vars

\* C13 witness: after an accepted import wrote the page's DataManager to the
\* item, a trading cycle of the engine has written the engine's over it.
C13_Witness ==
    /\ alertShown = "Data imported successfully!"
    /\ app.bots = ImportedBots
    /\ tradingHistory # <<>>
    /\ persisted.state = "json"
    /\ Parse(persisted) = EngineStore
    /\ Parse(persisted) # app

C15_OptimizeByRate ==
    [][\A botId \in BotIds :
           OptimizeBot(botId) =>
               LET i == FindBot(bots, botId)
                   returned == AgentOptimizeBot(bots, botModels, tradingHistory,
                                                botId).confidence
               IN  IF bots[i].successRate < 4000
                   THEN /\ bots'[i].riskLevel = Max(RiskMin, bots[i].riskLevel - 20)
                        /\ returned = 80
                   ELSE IF bots[i].successRate > 7000 /\ bots[i].profit > 5000
                   THEN /\ bots'[i].riskLevel = Min(RiskMax, bots[i].riskLevel + 15)
                        /\ returned = 85
                   ELSE /\ bots'[i].riskLevel = bots[i].riskLevel
                        /\ returned = 70]_vars

\* C16: every makeStrategicDecisions, at the end of a trading cycle and in a
\* monitor tick, whatever the sentiment, completes without an error and
\* appends exactly one strategy decision (in a monitor tick, after what
\* assessPortfolioHealth logged).
C16_StrategicCompletes ==
    [][/\ ExecuteTradingCycle =>
              /\ ~Throws(marketAnalysis.sentiment)
              /\ Unshifted(aiDecisions, aiDecisions', 1, "strategy")
       /\ MonitorTick =>
              /\ ~Throws(marketAnalysis'.sentiment)
              /\ Unshifted(AssessPortfolioHealth(bots, tradingHistory, aiDecisions),
                           aiDecisions', 1, "strategy")]_vars

\* C17: calculateMarketSentiment(trend, volatility) follows the bands in
\* order: trend > 0.5 and volatility < 0.03 is strong_bull; else trend > 0.2
\* and volatility < 0.05 is bull; else trend < -0.5 and volatility > 0.08 is
\* strong_bear; else trend < -0.2 and volatility > 0.05 is bear; else
\* neutral. Trend 0.6 with volatility 0.02 is strong_bull.
C17_SentimentBands ==
    called.op = "calculateMarketSentiment" =>
        /\ called.sentiment =
               CASE called.trend > 50 /\ called.volatility < 3 -> "strong_bull"
                 [] called.trend > 20 /\ called.volatility < 5
                      /\ ~(called.trend > 50 /\ called.volatility < 3) -> "bull"
                 [] called.trend < -50 /\ called.volatility > 8 -> "strong_bear"
                 [] called.trend < -20 /\ called.volatility > 5
                      /\ ~(called.trend < -50 /\ called.volatility > 8) -> "bear"
                 [] OTHER -> "neutral"
        /\ (called.trend = 60 /\ called.volatility = 2
                => called.sentiment = "strong_bull")

C17_Witness ==
    /\ called.op = "calculateMarketSentiment"
    /\ called.trend = 60 /\ called.volatility = 2
    /\ called.sentiment = "strong_bull"

\* C18: however the pieces of a trading cycle interleave with toggleBot and
\* stop, a TradeRecord is appended for a bot only while its status is active,
\* and one trading cycle processes each bot at most once, in the order of the
\* bots array.
C18_ActiveOnceInOrder ==
    /\ [][/\ (tradingHistory' # tradingHistory
                  => \E i \in DOMAIN tradeCount : tradeCount'[i] # tradeCount[i])
           /\ \A i \in DOMAIN tradeCount :
                  tradeCount'[i] # tradeCount[i] =>
                      /\ bots[i].status = "active" /\ bots'[i].status = "active"
                      /\ tradingHistory'[1].botId = bots[i].id
                      /\ cycles' # <<>>
                      /\ LET done == cycles'[Len(cycles')].done
                         IN  /\ done # <<>>
                             /\ done[Len(done)] = i
                             /\ \A k \in 1..(Len(done) - 1) : done[k] < i]_vars
    /\ [](\A c \in DOMAIN cycles :
             LET order == cycles[c].done \o cycles[c].todo
             IN  \A j, k \in DOMAIN order : j < k => order[j] < order[k])

C18_Witness ==
    /\ cycles # <<>>
    /\ Head(cycles).done = <<2, 3>>
    /\ bots[1].status = "inactive"
    /\ tradeCount[1] = 0 /\ tradeCount[2] = 1 /\ tradeCount[3] = 1
    /\ Len(tradingHistory) = 2

\* C19 as stated: after every learnFromTrade call for a bot with a model, at
\* every history length from 1 upward, winRate and avgProfit are those of the
\* min(20, length) most recent history entries.
C19_RollingFromOne ==
    called.op = "learnFromTrade" =>
        LET history == called.model.tradeHistory
            metrics == called.model.performanceMetrics
            recent == SubSeq(history, Len(history) - Min(20, Len(history)) + 1,
                             Len(history))
            wins == Cardinality({k \in DOMAIN recent : recent[k] > 0})
        IN  /\ metrics.winRate[1] * Len(recent) = 100 * wins * metrics.winRate[2]
            /\ metrics.avgProfit[1] * Len(recent)
                   = SeqSum(recent) * metrics.avgProfit[2]

\* C19: after every learnFromTrade call for a bot with a model, once the
\* history holds 10 entries or more, winRate and avgProfit are those of the
\* min(20, length) most recent history entries; while it holds fewer than 10
\* the metrics are left as they were, 0 from the model's creation.
C19_RollingFromTen ==
    called.op = "learnFromTrade" =>
        LET history == called.model.tradeHistory
            metrics == called.model.performanceMetrics
            recent == SubSeq(history, Len(history) - Min(20, Len(history)) + 1,
                             Len(history))
            wins == Cardinality({k \in DOMAIN recent : recent[k] > 0})
        IN  IF Len(history) >= 10
            THEN /\ metrics.winRate[1] * Len(recent)
                        = 100 * wins * metrics.winRate[2]
                 /\ metrics.avgProfit[1] * Len(recent)
                        = SeqSum(recent) * metrics.avgProfit[2]
            ELSE /\ metrics.winRate[1] = 0
                 /\ metrics.avgProfit[1] = 0
                 /\ metrics = InitialModel.performanceMetrics

C19_Witness ==
    /\ called.op = "learnFromTrade"
    /\ Len(called.model.tradeHistory) = 21
    /\ called.model.tradeHistory[1] < 0
    /\ called.model.performanceMetrics.winRate = <<2000, 20>>
    /\ called.model.performanceMetrics.avgProfit = <<3000, 20>>

\* C20: for every bot and all sampled conditions the decision's execute flag
\* is true iff the strategy's own condition holds and its unrounded
\* confidence exceeds 50 (arbitrage: volatility > 0.3 and volatility * 80 >
\* 50; momentum: |trend| > 0.2 and |trend| * 90 > 50; market_making: volume >
\* 0.4 and volume * 70 > 50; scalping: volatility > 0.2 and volatility * 85 >
\* 50; ai_adaptive: shouldTrade and getConfidence > 50), and executeBotTrade
\* appends a TradeRecord only when the flag is true.
C20_ExecuteGate ==
    called.op = "generateTradeDecision" =>
        LET bot == called.bot
            volatility == called.draw.volatility
            trend == 2 * (called.draw.trend - 500)
            volume == called.draw.volume
            absTrend == IF trend < 0 THEN -trend ELSE trend
            agent == GetConfidence(botModels, bots, tradingHistory,
                                   overallConfidence, bot.id)
            own == CASE bot.type = "arbitrage" ->
                            volatility > 300 /\ volatility * 80 > 50 * 1000
                     [] bot.type = "momentum" ->
                            absTrend > 200 /\ absTrend * 90 > 50 * 1000
                     [] bot.type = "market_making" ->
                            volume > 400 /\ volume * 70 > 50 * 1000
                     [] bot.type = "scalping" ->
                            volatility > 200 /\ volatility * 85 > 50 * 1000
                     [] bot.type = "ai_adaptive" ->
                            /\ ShouldTrade(botModels, bots, tradingHistory,
                                           bot.id, Conditions(called.draw),
                                           called.draw.gate)
                            /\ agent[1] > 50 * agent[2]
        IN  /\ called.decision.execute <=> own
            /\ called.appended > 0 => called.decision.execute

C20_Witness ==
    /\ called.op = "generateTradeDecision"
    /\ called.bot.type = "momentum"
    /\ called.draw.trend = 778
    /\ called.decision.execute
    /\ called.decision.confidence = 50
    /\ called.appended = 1

\* C21: in every makeStrategicDecisions invocation (the monitor's tick, the
\* end of a trading cycle), whatever the sentiment, the volatility nudge is
\* applied on top of the sentiment's own change: with volatility > 0.08 every
\* active bot's riskLevel is lowered by a further 0.1, with volatility < 0.03
\* raised by a further 0.05, clamped to [0.1, 0.9].
C21_NudgeAlways ==
    [][(MonitorTick \/ ExecuteTradingCycle) =>
          \A i \in DOMAIN bots :
              bots[i].status = "active" =>
                  LET a == marketAnalysis'
                      risk == bots[i].riskLevel
                      branch == CASE a.sentiment = "strong_bull" -> Min(90, risk + 10)
                                  [] a.sentiment = "bear" -> Max(10, risk - 15)
                                  [] OTHER -> risk
                  IN  bots'[i].riskLevel =
                          IF a.count > 0 /\ a.absSum > 8 * a.count
                          THEN Max(10, Min(90, branch - 10))
                          ELSE IF a.count > 0 /\ a.absSum < 3 * a.count
                          THEN Max(10, Min(90, branch + 5))
                          ELSE branch]_vars

\* C22: one assessPortfolioHealth appends at most one portfolio_health
\* decision, and appends one exactly when at least two of the three penalties
\* apply (overall successRate < 40: -30; more than 60% of the active bots
\* with negative profit: -25; high correlation: -20), that is when the score
\* is below 70; the decision carries the first recommendation triggered, in
\* that order, and confidence 85; no bot field is changed.  The monitor's tick
\* runs it between analyzeMarketConditions and makeStrategicDecisions.
C22_HealthDecision ==
    [][(UNCHANGED <<tradingHistory, marketData, timers>> /\ MonitorTick) =>
          LET total == Len(tradingHistory)
              won == Cardinality({k \in DOMAIN tradingHistory :
                                     tradingHistory[k].profit > 0})
              active == {i \in DOMAIN bots : bots[i].status = "active"}
              losing == {i \in active : bots[i].profit < 0}
              recent == SubSeq(tradingHistory, 1, Min(50, total))
              succeeded == Cardinality({k \in DOMAIN recent : recent[k].success})
              low == IF total > 0 THEN 100 * won < 40 * total ELSE TRUE
              drawdown == 10 * Cardinality(losing) > 6 * Cardinality(active)
              correlated ==
                  /\ Len(recent) > 0
                  /\ \/ 10 * (2 * succeeded - Len(recent)) > 7 * Len(recent)
                     \/ 10 * (Len(recent) - 2 * succeeded) > 7 * Len(recent)
              penalties == (IF low THEN 1 ELSE 0) + (IF drawdown THEN 1 ELSE 0)
                               + (IF correlated THEN 1 ELSE 0)
              healthScore == 100 - (IF low THEN 30 ELSE 0)
                                 - (IF drawdown THEN 25 ELSE 0)
                                 - (IF correlated THEN 20 ELSE 0)
              health == [type |-> "portfolio_health",
                         message |-> IF low THEN "Low success rate detected"
                                     ELSE IF drawdown
                                     THEN "Multiple bots in drawdown"
                                     ELSE "High correlation detected between bots",
                         bot |-> "", score |-> healthScore, confidence |-> 85]
              assessed == IF penalties >= 2
                          THEN SubSeq(<<health>> \o aiDecisions, 1,
                                      Min(Len(aiDecisions) + 1, MaxAIDecisions))
                          ELSE aiDecisions
              Strategic(after) ==
                  /\ aiDecisions' = after.aiDecisions
                  /\ bots' = after.bots
          IN  /\ (penalties >= 2) <=> (healthScore < 70)
              /\ Strategic(MakeStrategicDecisions(bots, assessed, marketAnalysis'))]_vars

C22_Witness ==
    \E k \in DOMAIN aiDecisions :
        /\ aiDecisions[k].type = "portfolio_health"
        /\ aiDecisions[k].score = 50
        /\ aiDecisions[k].message = "Low success rate detected"
        /\ aiDecisions[k].confidence = 85

\* C23: makeStrategicDecisions (at the end of a trading cycle and in the
\* monitor's tick) and the monitor's tick as a whole change no field of a bot
\* whose status is inactive: the sentiment's and the volatility's risk
\* changes reach active bots only.
C23_InactiveUntouched ==
    [][(MonitorTick \/ ExecuteTradingCycle) =>
          \A i \in DOMAIN bots :
              bots[i].status = "inactive" => bots'[i] = bots[i]]_vars

C23_Witness ==
    /\ bots[5].status = "inactive" /\ bots[5].riskLevel = 70
    /\ bots[4].status = "active" /\ bots[4].riskLevel = 65
    /\ marketAnalysis.sentiment = "neutral"

\* C24: for every non-empty market snapshot the sentiment that
\* analyzeMarketConditions stores is neutral, bear or strong_bear, never bull
\* or strong_bull, because the volatility mean(|change|) is at least the
\* absolute trend |mean(change)|; hence the sentiment branch of
\* makeStrategicDecisions raises no riskLevel: a riskLevel that rises does so
\* by the volatility nudge of 0.05 alone.
C24_NeverBull ==
    (called.op = "analyzeMarketConditions" /\ called.market # <<>>) =>
        LET a == called.analysis
            changes == [i \in DOMAIN called.market |-> called.market[i].change]
            trendSum == SeqSum(changes)
            volatilitySum ==
                SeqSum([i \in DOMAIN changes |->
                           IF changes[i] < 0 THEN -changes[i] ELSE changes[i]])
        IN  /\ a.sentiment \in {"neutral", "bear", "strong_bear"}
            /\ a.sum = trendSum /\ a.absSum = volatilitySum
            /\ volatilitySum >= trendSum /\ volatilitySum >= -trendSum
            /\ \A i \in DOMAIN bots :
                   called.after[i].riskLevel > bots[i].riskLevel =>
                       /\ volatilitySum < 3 * Len(changes)
                       /\ called.after[i].riskLevel = Min(90, bots[i].riskLevel + 5)

C24_Witness ==
    /\ called.op = "analyzeMarketConditions"
    /\ called.analysis.sum > 50 * called.analysis.count
    /\ called.analysis.sentiment = "neutral"
    /\ bots[1].status = "active"
    /\ called.after[1].riskLevel = bots[1].riskLevel - 10

\* C25: after any sequence of starts and stops the running flag is true iff
\* a trading-cycle timer is scheduled iff a monitor timer is scheduled, and
\* at most one timer of each kind is live: repeated starts and stops leak no
\* timer.
C25_TimersIffRunning ==
    /\ isRunning <=> timers.trading > 0
    /\ isRunning <=> timers.monitor > 0
    /\ timers.trading <= 1 /\ timers.monitor <= 1
    /\ tradingInterval <=> timers.trading = 1
    /\ monitoringInterval <=> timers.monitor = 1

\* C25 witness: running again after a stop, with one timer of each kind
C25_Witness ==
    /\ isRunning
    /\ timers.trading = 1 /\ timers.monitor = 1
    /\ Len(aiDecisions) >= 2
    /\ aiDecisions[1].type = "system" /\ aiDecisions[2].type = "system"
    /\ \E i \in DOMAIN tradeCount : tradeCount[i] > 0
    /\ tradingHistory # <<>>
    /\ \A i \in DOMAIN bots : bots[i].status = "active"

\* C26: after resetData, whatever updateBot, addTrade, addAIDecision and
\* resetData calls came before, the bots are the default fleet (five bots,
\* all inactive, profit 0, trades 0, successRate 0, riskLevels 0.3, 0.5, 0.4,
\* 0.6, 0.7) and tradingHistory and aiDecisions are empty.
C26_ResetRestoresDefaults ==
    manager.last = "resetData" =>
        /\ Len(manager.bots) = 5
        /\ \A i \in DOMAIN manager.bots :
               /\ manager.bots[i].status = "inactive"
               /\ manager.bots[i].profit = 0
               /\ manager.bots[i].trades = 0
               /\ manager.bots[i].successRate = 0
        /\ [i \in DOMAIN manager.bots |-> manager.bots[i].riskLevel]
               = <<30, 50, 40, 60, 70>>
        /\ manager.tradingHistory = <<>>
        /\ manager.aiDecisions = <<>>

\* what the page wrote last is still the item: the page's DataManager after
\* an accepted import, the page's engine's after a reset
PageWroteItem ==
    \/ /\ alertShown = "Data imported successfully!"
       /\ persisted = Stringify(app)
    \/ /\ alertShown = "Application data has been reset successfully."
       /\ persisted = Stringify(appEngine)

\* the log after is the log before with k records put in front, cut at the
\* cap of the log
ExtendsLog(before, after, cap) ==
    \E k \in 0..cap :
        /\ Len(after) = IF k + Len(before) > cap THEN cap ELSE k + Len(before)
        /\ \A i \in 1..(Len(after) - k) : after[k + i] = before[i]

\* C27: import and reset act on the Store the engine and the agent use: when
\* the persisted item is what an accepted import or a reset wrote, the
\* engine's next handler (market refresh, start, trading cycle) reads the
\* imported or reset bots, tradingHistory and aiDecisions, and the item it
\* persists holds those bots (id, name, type and riskLevel as imported or
\* reset) and those logs with at most new records in front, never the fleet
\* and the logs from before the import or reset.
C27_ImportReachesEngine ==
    [][(/\ constructed
        /\ PageWroteItem
        /\ (Initialize \/ StartAllBots \/ ExecuteTradingCycle)) =>
           /\ Stringify(EngineStore).bots = persisted.bots
           /\ Stringify(EngineStore).tradingHistory = persisted.tradingHistory
           /\ Stringify(EngineStore).aiDecisions = persisted.aiDecisions
           /\ persisted'.state = "json"
           /\ Len(persisted'.bots) = Len(persisted.bots)
           /\ \A i \in DOMAIN persisted.bots :
                  /\ persisted'.bots[i].id = persisted.bots[i].id
                  /\ persisted'.bots[i].name = persisted.bots[i].name
                  /\ persisted'.bots[i].type = persisted.bots[i].type
                  /\ persisted'.bots[i].riskLevel = persisted.bots[i].riskLevel
           /\ ExtendsLog(persisted.tradingHistory, persisted'.tradingHistory,
                         MaxTradingHistory)
           /\ ExtendsLog(persisted.aiDecisions, persisted'.aiDecisions,
                         MaxAIDecisions)]_vars

\* C28: each executed trade of a bot increases the bot's trades by exactly 1
\* and its profit by exactly the profit of the trade (the bot's newest record
\* in the trade log), a bot that did not trade keeps both, and trades never
\* decreases, also once the trade log has evicted entries.
C28_TradeAccounting ==
    [][ExecuteTradingCycle =>
           \A i \in DOMAIN bots :
               /\ bots'[i].trades >= bots[i].trades
               /\ (tradeCount'[i] = tradeCount[i]) =>
                      /\ bots'[i].trades = bots[i].trades
                      /\ bots'[i].profit = bots[i].profit
               /\ (tradeCount'[i] = tradeCount[i] + 1) =>
                      /\ bots'[i].trades = bots[i].trades + 1
                      /\ \E k \in DOMAIN tradingHistory' :
                             /\ tradingHistory'[k].botId = bots[i].id
                             /\ \A j \in 1..(k - 1) :
                                    tradingHistory'[j].botId # bots[i].id
                             /\ bots'[i].profit =
                                    bots[i].profit + tradingHistory'[k].profit]_vars

\* C29: TradingEngine.optimizeBot called with an id that matches no bot leaves
\* bots, tradingHistory and aiDecisions as they were: it appends no
\* optimization decision.
C29_UnknownIdNoDecision ==
    [][\A botId \in env.optimize :
           (FindBot(bots, botId) = 0 /\ OptimizeBot(botId)) =>
               /\ bots' = bots
               /\ tradingHistory' = tradingHistory
               /\ aiDecisions' = aiDecisions]_vars

====
